---- MODULE Spec2Model ----
(***************************************************************************)
(* Model of the HTTP request-logging middleware of src/logger.go:          *)
(* the responseLogger (the Observer wrapping an http.ResponseWriter), the  *)
(* loggerHandler (the middleware), the constructor Handler with its        *)
(* format dispatch logFnForType, and the five line formats.                *)
(*                                                                         *)
(* Strings are TLA+ strings; a remote address is a sequence of segments    *)
(* in which every ':', '[' and ']' byte is a segment of its own, so that   *)
(* net.SplitHostPort can be computed on it.  Times are whole seconds.      *)
(***************************************************************************)
EXTENDS Integers, Sequences, FiniteSets, TLC

(***************************************************************************)
(* Bounds of the model.                                                    *)
(***************************************************************************)
\* Calls the inner handler makes on the Observer during one request.
MaxCalls == 2
\* Longest chunk, in bytes, the inner handler passes to Write.
MaxChunk == 2
\* Format selectors tried at construction are 0..MaxType.
MaxType == 6
\* Requests handled concurrently through one middleware instance.
NumReqs == 2
\* Calls the inner handler makes per request when requests run concurrently.
MaxConcCalls == 1

(***************************************************************************)
(* Program constants.                                                      *)
(***************************************************************************)
\* const block of logger.go: Version is ConstSpec 0, so iota is 1 here.
CombineLoggerType == 1
CommonLoggerType == 2
DevLoggerType == 3
ShortLoggerType == 4
TinyLoggerType == 5
\* http.StatusOK, the status Write records when none was recorded.
StatusOK == 200
\* The zero value of responseLogger.status: no status recorded.
NoStatus == 0

(***************************************************************************)
(* Input sets.                                                             *)
(***************************************************************************)
\* Status codes the inner handler passes to WriteHeader (valid 1xx-5xx
\* codes, as http.ResponseWriter requires).
Codes == {404, 500}
\* Elapsed whole seconds between the start and a later time.Now().
ElapsedTimes == {0, 700}
\* State of the configured statsd client: none, working, or failing.
StatsModes == {"nil", "up", "down"}

\* The calls of ServeHTTP(res, req) tried: the request, whether res is an
\* http.Flusher, and the time.Now() read at the call (seconds after
\* 01/Jan/1970 00:00:00 UTC).  User is req.URL.User: present tells whether
\* it is non-nil, name is its Username().
Arrivals ==
  << [req |-> [Method |-> "GET", RequestURI |-> "/ping", Proto |-> "HTTP/1.1",
               RemoteAddr |-> <<"127.0.0.1", ":", "5000">>,
               User |-> [present |-> FALSE, name |-> ""],
               Referer |-> "", UserAgent |-> ""],
      flusher |-> TRUE, start |-> 0],
     [req |-> [Method |-> "POST", RequestURI |-> "/x?y=1", Proto |-> "HTTP/2.0",
               RemoteAddr |-> <<>>,
               User |-> [present |-> TRUE, name |-> "bob"],
               Referer |-> "http://r/", UserAgent |-> "curl/8"],
      flusher |-> FALSE, start |-> 3725],
     [req |-> [Method |-> "HEAD", RequestURI |-> "/", Proto |-> "HTTP/1.0",
               RemoteAddr |-> <<"[", ":", ":", "1", "]", ":", "80">>,
               User |-> [present |-> TRUE, name |-> ""],
               Referer |-> "", UserAgent |-> "ua"],
      flusher |-> TRUE, start |-> 86399],
     [req |-> [Method |-> "GET", RequestURI |-> "/h", Proto |-> "HTTP/1.1",
               RemoteAddr |-> <<"localhost">>,
               User |-> [present |-> FALSE, name |-> ""],
               Referer |-> "", UserAgent |-> ""],
      flusher |-> FALSE, start |-> 60] >>

(***************************************************************************)
(* Strings.                                                                *)
(***************************************************************************)
Digit(d) ==
  CASE d = 0 -> "0" [] d = 1 -> "1" [] d = 2 -> "2" [] d = 3 -> "3"
    [] d = 4 -> "4" [] d = 5 -> "5" [] d = 6 -> "6" [] d = 7 -> "7"
    [] d = 8 -> "8" [] d = 9 -> "9"

RECURSIVE ItoaNat(_)
ItoaNat(n) == IF n < 10 THEN Digit(n) ELSE ItoaNat(n \div 10) \o Digit(n % 10)

\* strconv.Itoa
Itoa(n) == IF n < 0 THEN "-" \o ItoaNat(0 - n) ELSE ItoaNat(n)

RECURSIVE Concat(_)
\* The string a sequence of segments stands for.
Concat(s) == IF s = <<>> THEN "" ELSE Head(s) \o Concat(Tail(s))

RECURSIVE Join(_, _)
\* strings.Join
Join(elems, sep) ==
  IF elems = <<>> THEN ""
  ELSE IF Len(elems) = 1 THEN elems[1]
  ELSE elems[1] \o sep \o Join(Tail(elems), sep)

\* Two-digit and three-digit zero padding of the time layouts.
Pad2(n) == IF n < 10 THEN "0" \o Itoa(n) ELSE Itoa(n)
Pad3(n) == IF n < 10 THEN "00" \o Itoa(n) ELSE IF n < 100 THEN "0" \o Itoa(n) ELSE Itoa(n)

(***************************************************************************)
(* net.SplitHostPort, on a sequence of segments.                           *)
(***************************************************************************)
\* Index of the last / first segment equal to c, 0 when there is none.
LastIndex(s, c) ==
  IF \E i \in 1..Len(s) : s[i] = c
  THEN CHOOSE i \in 1..Len(s) : s[i] = c /\ \A j \in (i+1)..Len(s) : s[j] # c
  ELSE 0
FirstIndex(s, c) ==
  IF \E i \in 1..Len(s) : s[i] = c
  THEN CHOOSE i \in 1..Len(s) : s[i] = c /\ \A j \in 1..(i-1) : s[j] # c
  ELSE 0
Contains(s, c) == \E i \in 1..Len(s) : s[i] = c

AddrError == [host |-> <<>>, port |-> <<>>, err |-> TRUE]

SplitHostPort(hostport) ==
  LET i == LastIndex(hostport, ":")
      n == Len(hostport)
  IN IF i = 0 THEN AddrError
     ELSE IF hostport[1] = "["
     THEN LET end == FirstIndex(hostport, "]")
          IN IF end = 0 THEN AddrError
             ELSE IF end = n THEN AddrError
             ELSE IF end + 1 # i THEN AddrError
             ELSE IF Contains(SubSeq(hostport, 2, n), "[") THEN AddrError
             ELSE IF Contains(SubSeq(hostport, end + 1, n), "]") THEN AddrError
             ELSE [host |-> SubSeq(hostport, 2, end - 1),
                   port |-> SubSeq(hostport, i + 1, n), err |-> FALSE]
     ELSE IF Contains(SubSeq(hostport, 1, i - 1), ":") THEN AddrError
     ELSE IF Contains(hostport, "[") THEN AddrError
     ELSE IF Contains(hostport, "]") THEN AddrError
     ELSE [host |-> SubSeq(hostport, 1, i - 1),
           port |-> SubSeq(hostport, i + 1, n), err |-> FALSE]

(***************************************************************************)
(* The field extractors of logger.go.                                      *)
(***************************************************************************)
extractUsername(rq) ==
  IF rq.User.present /\ rq.User.name # "" THEN rq.User.name ELSE "-"

\* The error of SplitHostPort is dropped; host is "" on an error.
extractRemoteIP(rq) == Concat(SplitHostPort(rq.RemoteAddr).host)

\* start.Format(timeFormat), for a start within the first day, in UTC.
FormatStart(start) ==
  "01/Jan/1970:" \o Pad2(start \div 3600) \o ":" \o Pad2((start % 3600) \div 60)
    \o ":" \o Pad2(start % 60) \o " +0000"

\* fmt.Sprintf("%.3f ms", elapsed.Seconds()/1e6): elapsed seconds divided
\* by 1e6, rounded to three decimals (ElapsedTimes holds no tie).
parseResponseTime(elapsed) ==
  LET thousandths == (elapsed + 500) \div 1000
  IN Itoa(thousandths \div 1000) \o "." \o Pad3(thousandths % 1000) \o " ms"

(***************************************************************************)
(* The five line formats of logFnForType: the fields each one joins.       *)
(***************************************************************************)
CombineFields(l, rq, elapsed) ==
  << extractRemoteIP(rq), "-", extractUsername(rq),
     "[" \o FormatStart(l.start) \o "]",
     "\"" \o rq.Method, rq.RequestURI, rq.Proto \o "\"",
     Itoa(l.status), Itoa(l.size),
     "\"" \o rq.Referer \o "\"", "\"" \o rq.UserAgent \o "\"" >>

CommonFields(l, rq, elapsed) ==
  << extractRemoteIP(rq), "-", extractUsername(rq),
     "[" \o FormatStart(l.start) \o "]",
     "\"" \o rq.Method, rq.RequestURI, rq.Proto \o "\"",
     Itoa(l.status), Itoa(l.size) >>

\* A mutant: the dev format with the fields in the order of the tiny format.
DevFieldsSwapped(l, rq, elapsed) ==
  << rq.Method, rq.RequestURI, Itoa(l.status), Itoa(l.size), "-",
     parseResponseTime(elapsed) >>

DevFields(l, rq, elapsed) ==
  << rq.Method, rq.RequestURI, Itoa(l.status), parseResponseTime(elapsed),
     "-", Itoa(l.size) >>

ShortFields(l, rq, elapsed) ==
  << extractRemoteIP(rq), extractUsername(rq), rq.Method, rq.RequestURI,
     rq.Proto, Itoa(l.status), Itoa(l.size), "-", parseResponseTime(elapsed) >>

TinyFields(l, rq, elapsed) ==
  << rq.Method, rq.RequestURI, Itoa(l.status), Itoa(l.size), "-",
     parseResponseTime(elapsed) >>

\* A mutant: the line is written without the newline.
Fprint(str) == str

\* What fmt.Fprintln(w, str) hands to w in one Write.
Fprintln(str) == str \o "\n"

\* The fields the function logFnForType returned for fn joins.
LogFields(fn, l, rq, elapsed) ==
  CASE fn = CombineLoggerType -> CombineFields(l, rq, elapsed)
    [] fn = CommonLoggerType -> CommonFields(l, rq, elapsed)
    [] fn = DevLoggerType -> DevFields(l, rq, elapsed)
    [] fn = ShortLoggerType -> ShortFields(l, rq, elapsed)
    [] fn = TinyLoggerType -> TinyFields(l, rq, elapsed)

\* That function applied: the bytes it writes on the sink.
ApplyLogFn(fn, l, rq, elapsed) == Fprintln(Join(LogFields(fn, l, rq, elapsed), " "))

\* A mutant: an unknown selector falls back to the combined format.
logFnForTypeFallback(t) ==
  IF t \in {CombineLoggerType, CommonLoggerType, DevLoggerType,
            ShortLoggerType, TinyLoggerType}
  THEN [panic |-> FALSE, fn |-> t]
  ELSE [panic |-> FALSE, fn |-> CombineLoggerType]

\* The switch of logFnForType: a function for the five types, a panic for
\* every other value.
logFnForType(t) ==
  IF t \in {CombineLoggerType, CommonLoggerType, DevLoggerType,
            ShortLoggerType, TinyLoggerType}
  THEN [panic |-> FALSE, fn |-> t]
  ELSE [panic |-> TRUE, fn |-> 0]

(***************************************************************************)
(* State.                                                                  *)
(***************************************************************************)
VARIABLES
  mw,      \* the loggerHandler built by Handler, or that Handler panicked
  pc,      \* per request: where its ServeHTTP call is
  req,     \* per request: the *http.Request
  rl,      \* per request: the responseLogger (start, status, size)
  rw,      \* per request: the underlying http.ResponseWriter
  calls,   \* per request: the calls the inner handler made, with their returns
  sink,    \* the io.Writer: every Write it received
  metrics  \* the statsd client: every measurement it received

vars == << mw, pc, req, rl, rw, calls, sink, metrics >>

ReqIds == 1..NumReqs

NoRequest ==
  [Method |-> "", RequestURI |-> "", Proto |-> "", RemoteAddr |-> <<>>,
   User |-> [present |-> FALSE, name |-> ""], Referer |-> "", UserAgent |-> ""]

\* &responseLogger{rw: res, start: time.Now()}: status and size are zero.
NewResponseLogger(start) == [start |-> start, status |-> NoStatus, size |-> 0]

\* A fresh underlying writer: nothing received, no header sent.
NewResponseWriter(flusher) ==
  [flusher |-> flusher, received |-> <<>>, wroteHeader |-> FALSE,
   status |-> NoStatus, bytes |-> 0, flushes |-> 0]

\* One call on a ResponseWriter and what it returned.
Call(op, arg, n, err) == [op |-> op, arg |-> arg, n |-> n, err |-> err]

(***************************************************************************)
(* The underlying http.ResponseWriter the Observer forwards to.  It sends  *)
(* the status line once: with the first WriteHeader, or with 200 at the    *)
(* first Write; a later WriteHeader sends nothing.                         *)
(***************************************************************************)
RwWriteHeader(w, code) ==
  [w EXCEPT !.received = Append(@, Call("WriteHeader", code, 0, FALSE)),
            !.wroteHeader = TRUE,
            !.status = IF w.wroteHeader THEN @ ELSE code]

RwWrite(w, len, n, err) ==
  [w EXCEPT !.received = Append(@, Call("Write", len, n, err)),
            !.wroteHeader = TRUE,
            !.status = IF w.wroteHeader THEN @ ELSE StatusOK,
            !.bytes = @ + n]

RwFlush(w) ==
  [w EXCEPT !.received = Append(@, Call("Flush", 0, 0, FALSE)),
            !.flushes = @ + 1]

RwHeader(w) ==
  [w EXCEPT !.received = Append(@, Call("Header", 0, 0, FALSE))]

(***************************************************************************)
(* Construction.                                                           *)
(***************************************************************************)
\* No handler built yet.  arg remembers the selector Handler was called with.
NotBuilt ==
  [state |-> "none", arg |-> 0, formatType |-> 0, logFn |-> 0, stats |-> "nil"]

\* The loggerHandler literal of Handler: h, writer, logFn and stats are
\* set, formatType keeps its zero value.
Handler(t, st) ==
  IF logFnForType(t).panic
  THEN [state |-> "panicked", arg |-> t, formatType |-> 0, logFn |-> 0,
        stats |-> "nil"]
  ELSE [state |-> "ready", arg |-> t, formatType |-> 0,
        logFn |-> logFnForType(t).fn, stats |-> st]

\* DefaultHandler: the combined format and no statsd client.
DefaultHandler == Handler(CombineLoggerType, "nil")

\* A call of Handler(h, writer, t, stats).
NewHandler(t, st) ==
  /\ mw.state = "none"
  /\ mw' = Handler(t, st)
  /\ UNCHANGED << pc, req, rl, rw, calls, sink, metrics >>

(***************************************************************************)
(* loggerHandler.ServeHTTP, up to the call of the inner handler.           *)
(***************************************************************************)
\* A mutant: one responseLogger kept by the handler and used by every call.
SharedObserver(r) == 1

\* The responseLogger the ServeHTTP call r works with: the one it allocated.
ObserverOf(r) == r

ServeHTTP(r, a) ==
  /\ mw.state = "ready"
  /\ pc[r] = "idle"
  /\ req' = [req EXCEPT ![r] = a.req]
  /\ rl' = [rl EXCEPT ![ObserverOf(r)] = NewResponseLogger(a.start)]
  /\ rw' = [rw EXCEPT ![r] = NewResponseWriter(a.flusher)]
  /\ pc' = [pc EXCEPT ![r] = "handler"]
  /\ UNCHANGED << mw, calls, sink, metrics >>

(***************************************************************************)
(* The responseLogger's methods, called by the inner handler.              *)
(***************************************************************************)
Header(r) ==
  /\ pc[r] = "handler"
  /\ rw' = [rw EXCEPT ![r] = RwHeader(@)]
  /\ calls' = [calls EXCEPT ![r] = Append(@, Call("Header", 0, 0, FALSE))]
  /\ UNCHANGED << mw, pc, req, rl, sink, metrics >>

\* A mutant: Write records 200 whatever was recorded.
WriteStatusAlways(status) == StatusOK

\* The status Write leaves recorded.
WriteStatus(status) == IF status = NoStatus THEN StatusOK ELSE status

\* A mutant: Write adds the length of the chunk, not the count returned.
WriteSizeRequested(size, len, n) == size + len

\* The size Write leaves recorded: n is what the underlying writer returned.
WriteSize(size, len, n) == size + n

\* A mutant: Write reports the whole chunk written and no error.
WriteReturnRequested(len, n, err) == Call("Write", len, len, FALSE)

\* What Write returns: n and err are what the underlying writer returned.
WriteReturn(len, n, err) == Call("Write", len, n, err)

\* Write(bytes) with len(bytes) = len; the underlying writer writes n bytes
\* and returns err.
Write(r, len, n, err) ==
  /\ pc[r] = "handler"
  /\ rl' = [rl EXCEPT ![ObserverOf(r)].status = WriteStatus(@),
                      ![ObserverOf(r)].size = WriteSize(@, len, n)]
  /\ rw' = [rw EXCEPT ![r] = RwWrite(@, len, n, err)]
  /\ calls' = [calls EXCEPT ![r] = Append(@, WriteReturn(len, n, err))]
  /\ UNCHANGED << mw, pc, req, sink, metrics >>

WriteHeader(r, status) ==
  /\ pc[r] = "handler"
  /\ rl' = [rl EXCEPT ![ObserverOf(r)].status = status]
  /\ rw' = [rw EXCEPT ![r] = RwWriteHeader(@, status)]
  /\ calls' = [calls EXCEPT ![r] = Append(@, Call("WriteHeader", status, 0, FALSE))]
  /\ UNCHANGED << mw, pc, req, sink, metrics >>

\* The underlying writer after the Observer's Flush.
FlushForward(w) == IF w.flusher THEN RwFlush(w) ELSE w

Flush(r) ==
  /\ pc[r] = "handler"
  /\ rw' = [rw EXCEPT ![r] = FlushForward(@)]
  /\ calls' = [calls EXCEPT ![r] = Append(@, Call("Flush", 0, 0, FALSE))]
  /\ UNCHANGED << mw, pc, req, rl, sink, metrics >>

(***************************************************************************)
(* The inner handler ends: it returns, or it panics and the panic leaves   *)
(* ServeHTTP, which recovers nothing.                                      *)
(***************************************************************************)
HandlerReturn(r) ==
  /\ pc[r] = "handler"
  /\ pc' = [pc EXCEPT ![r] = "log"]
  /\ UNCHANGED << mw, req, rl, rw, calls, sink, metrics >>

HandlerPanic(r) ==
  /\ pc[r] = "handler"
  /\ pc' = [pc EXCEPT ![r] = "panicked"]
  /\ UNCHANGED << mw, req, rl, rw, calls, sink, metrics >>

(***************************************************************************)
(* loggerHandler.ServeHTTP after the inner handler returned.               *)
(***************************************************************************)
\* A mutant: a failed write on the sink panics out of ServeHTTP.
AfterLogPropagates(ok) == IF ok THEN "stats" ELSE "panicked"

\* Where ServeHTTP goes after rh.logFn returned; ok is the result of the
\* sink's Write, which fmt.Fprintln returns and the caller drops.
AfterLog(ok) == "stats"

\* rh.logFn(rh.writer, rl, req): one Write of the line on the sink.
LogRequest(r, elapsed, ok) ==
  /\ pc[r] = "log"
  /\ sink' = Append(sink, [req |-> r, ok |-> ok,
                           data |-> ApplyLogFn(mw.logFn, rl[ObserverOf(r)], req[r], elapsed)])
  /\ pc' = [pc EXCEPT ![r] = AfterLog(ok)]
  /\ UNCHANGED << mw, req, rl, rw, calls, metrics >>

\* A mutant: the tags are built before the inner handler ran.
TagsBeforeHandler(l, rq) == << "status:" \o Itoa(NoStatus), "method:" \o rq.Method >>

\* The tags of the measurements: the recorded status and the method.
Tags(l, rq) == << "status:" \o Itoa(l.status), "method:" \o rq.Method >>

\* The three measurements of one request, in the order they are sent.
Measurements(r, l, rq, ok) ==
  << [req |-> r, kind |-> "Incr", name |-> "http.response", value |-> 1,
      tags |-> Tags(l, rq), ok |-> ok],
     [req |-> r, kind |-> "Gauge", name |-> "http.size", value |-> l.size,
      tags |-> Tags(l, rq), ok |-> ok],
     [req |-> r, kind |-> "Timing", name |-> "http.response", value |-> 0,
      tags |-> Tags(l, rq), ok |-> ok] >>

\* if rh.stats != nil { Incr; Gauge; Timing }, then ServeHTTP returns.  The
\* errors the client returns are dropped.
EmitStats(r) ==
  /\ pc[r] = "stats"
  /\ metrics' = IF mw.stats # "nil"
                THEN metrics \o Measurements(r, rl[ObserverOf(r)], req[r], mw.stats = "up")
                ELSE metrics
  /\ pc' = [pc EXCEPT ![r] = "done"]
  /\ UNCHANGED << mw, req, rl, rw, calls, sink >>

(***************************************************************************)
(* Specifications.                                                         *)
(***************************************************************************)
Init ==
  /\ mw = NotBuilt
  /\ pc = [r \in ReqIds |-> "idle"]
  /\ req = [r \in ReqIds |-> NoRequest]
  /\ rl = [r \in ReqIds |-> NewResponseLogger(0)]
  /\ rw = [r \in ReqIds |-> NewResponseWriter(FALSE)]
  /\ calls = [r \in ReqIds |-> <<>>]
  /\ sink = <<>>
  /\ metrics = <<>>

\* The steps of the inner handler of request r, which makes at most cap
\* calls on the Observer.
HandlerStep(r, cap) ==
  \/ /\ Len(calls[r]) < cap
     /\ \/ \E status \in Codes : WriteHeader(r, status)
        \/ \E len \in 1..MaxChunk : \E n \in 0..len : Write(r, len, n, n < len)
        \/ Flush(r)
        \/ Header(r)
  \/ HandlerReturn(r)
  \/ HandlerPanic(r)

\* One request through a middleware built with any selector and client.
Next ==
  \/ \E t \in (0 - 1)..MaxType : \E st \in StatsModes : NewHandler(t, st)
  \/ \E i \in 1..Len(Arrivals) : ServeHTTP(1, Arrivals[i])
  \/ HandlerStep(1, MaxCalls)
  \/ \E elapsed \in ElapsedTimes : \E ok \in BOOLEAN : LogRequest(1, elapsed, ok)
  \/ EmitStats(1)

Spec == Init /\ [][Next]_vars

(***************************************************************************)
(* Concurrent requests through one middleware, built with the tiny format  *)
(* and a working statsd client.  Every step of a request is a step of its  *)
(* own goroutine; the steps of the requests interleave freely.             *)
(***************************************************************************)
ConcHandler == Handler(TinyLoggerType, "up")

InitConc ==
  /\ mw = ConcHandler
  /\ pc = [r \in ReqIds |-> "idle"]
  /\ req = [r \in ReqIds |-> NoRequest]
  /\ rl = [r \in ReqIds |-> NewResponseLogger(0)]
  /\ rw = [r \in ReqIds |-> NewResponseWriter(FALSE)]
  /\ calls = [r \in ReqIds |-> <<>>]
  /\ sink = <<>>
  /\ metrics = <<>>

\* The call of ServeHTTP that request r is.
ConcArrival(r) == Arrivals[((r - 1) % Len(Arrivals)) + 1]

\* The steps of request r's goroutine.
RequestStep(r) ==
  \/ ServeHTTP(r, ConcArrival(r))
  \/ /\ Len(calls[r]) < MaxConcCalls
     /\ \/ \E status \in Codes : WriteHeader(r, status)
        \/ Write(r, 1, 1, FALSE)
  \/ HandlerReturn(r)
  \/ LogRequest(r, 0, TRUE)
  \/ EmitStats(r)

NextConc == \E r \in ReqIds : RequestStep(r)

SpecConc == InitConc /\ [][NextConc]_vars

(***************************************************************************)
(* What the calls of one inner handler amount to, read off the calls.      *)
(***************************************************************************)
RECURSIVE SumReturned(_)
\* The bytes the underlying writer reported written, over the Write calls.
SumReturned(cs) ==
  IF cs = <<>> THEN 0
  ELSE (IF Head(cs).op = "Write" THEN Head(cs).n ELSE 0) + SumReturned(Tail(cs))

RECURSIVE SumRequested(_)
\* The lengths of the chunks passed to Write.
SumRequested(cs) ==
  IF cs = <<>> THEN 0
  ELSE (IF Head(cs).op = "Write" THEN Head(cs).arg ELSE 0) + SumRequested(Tail(cs))

\* Whether some call of cs recorded a status: a WriteHeader or a Write.
StatusRecorded(cs) ==
  \E i \in 1..Len(cs) : cs[i].op \in {"WriteHeader", "Write"}

RECURSIVE Forwarded(_, _)
\* The calls of cs the underlying writer is to receive.
Forwarded(cs, flusher) ==
  IF cs = <<>> THEN <<>>
  ELSE IF Head(cs).op = "Flush" /\ ~flusher THEN Forwarded(Tail(cs), flusher)
  ELSE << Head(cs) >> \o Forwarded(Tail(cs), flusher)

RECURSIVE EntriesOf(_, _)
\* The entries of a shared log (sink, metrics) that request r made.
EntriesOf(log, r) ==
  IF log = <<>> THEN <<>>
  ELSE IF Head(log).req = r THEN << Head(log) >> \o EntriesOf(Tail(log), r)
  ELSE EntriesOf(Tail(log), r)

\* The status the server sends for the response: the one of the first
\* WriteHeader or Write, and 200 when the handler returned without either.
SentStatus(w) == IF w.wroteHeader THEN w.status ELSE StatusOK

RECURSIVE StatusFrom(_, _)
\* The status the calls cs leave recorded, from status s: the code of the
\* last WriteHeader; 200 after a Write with nothing recorded before it.
StatusFrom(s, cs) ==
  IF cs = <<>> THEN s
  ELSE StatusFrom(IF Head(cs).op = "WriteHeader" THEN Head(cs).arg
                  ELSE IF Head(cs).op = "Write" /\ s = 0 THEN 200
                  ELSE s,
                  Tail(cs))

Served == { r \in ReqIds : pc[r] # "idle" }

(***************************************************************************)
(* C1.  The recorded size is, after every step, the sum of the byte counts *)
(* the underlying writer returned for the Write calls made so far; never   *)
(* the sum of the chunk lengths when a write was short; WriteHeader,       *)
(* Header and Flush leave it unchanged.                                    *)
(***************************************************************************)
C1_SizeIsSumOfReturned ==
  \A r \in ReqIds : rl[r].size = SumReturned(calls[r])

\* A short write, then a WriteHeader: the size is below the bytes requested.
C1_Witness ==
  \E r \in ReqIds :
    /\ Len(calls[r]) = 2
    /\ calls[r][1].op = "Write" /\ calls[r][1].n < calls[r][1].arg /\ calls[r][1].n > 0
    /\ calls[r][2].op = "WriteHeader"
    /\ rl[r].size = calls[r][1].n
    /\ rl[r].size < SumRequested(calls[r])

(***************************************************************************)
(* C2.  A Write records status 200 exactly when no earlier call of the     *)
(* request recorded a status; after a WriteHeader (or an earlier Write) a  *)
(* Write leaves the recorded status as it is.                              *)
(***************************************************************************)
C2_WriteDefaultsStatusOnce ==
  [][\A r \in ReqIds :
       (Len(calls'[r]) = Len(calls[r]) + 1 /\ calls'[r][Len(calls'[r])].op = "Write")
       => rl'[r].status = IF StatusRecorded(calls[r]) THEN rl[r].status ELSE 200]_vars

\* WriteHeader(404), then a Write: 404 is still recorded.
C2_Witness ==
  \E r \in ReqIds :
    /\ Len(calls[r]) = 2
    /\ calls[r][1] = Call("WriteHeader", 404, 0, FALSE)
    /\ calls[r][2].op = "Write"
    /\ rl[r].status = 404

(***************************************************************************)
(* C3.  The underlying writer receives the handler's calls, same           *)
(* arguments, same order, one for one (a Flush only when it is a Flusher), *)
(* and every Write returns to the handler the count and the error the      *)
(* underlying writer returned.                                             *)
(***************************************************************************)
C3_Transparent ==
  \A r \in ReqIds :
    /\ rw[r].received = Forwarded(calls[r], rw[r].flusher)
    /\ rw[r].bytes = SumReturned(calls[r])

\* A failed short write and a Flush on a writer that is no Flusher.
C3_Witness ==
  \E r \in ReqIds :
    /\ ~rw[r].flusher
    /\ Len(calls[r]) = 2
    /\ calls[r][1] = Call("Write", 2, 1, TRUE)
    /\ calls[r][2].op = "Flush"
    /\ rw[r].received = << Call("Write", 2, 1, TRUE) >>

(***************************************************************************)
(* C4.  From the moment the middleware logs, the recorded status is the    *)
(* status the underlying writer sent for the response and the recorded     *)
(* size is the bytes it sent.                                              *)
(***************************************************************************)
C4_RecordedIsWhatWasSent ==
  \A r \in ReqIds :
    pc[r] \in {"log", "stats", "done"}
    => /\ rl[r].status = SentStatus(rw[r])
       /\ rl[r].size = rw[r].bytes

(***************************************************************************)
(* C5.  A request whose inner handler returned gets exactly one line on    *)
(* the sink, ending in a newline, written after the handler returned and   *)
(* before ServeHTTP returns, carrying the status and size recorded when    *)
(* the handler returned; no line before or while the handler runs.         *)
(***************************************************************************)
C5_OneLineAfterHandler ==
  \A r \in ReqIds :
    LET lines == EntriesOf(sink, r)
        l == rl[r]
    IN /\ pc[r] \in {"idle", "handler", "log", "panicked"} => lines = <<>>
       /\ pc[r] \in {"stats", "done"} =>
            /\ Len(lines) = 1
            /\ \E e \in ElapsedTimes :
                 lines[1].data = Join(LogFields(mw.logFn, l, req[r], e), " ") \o "\n"

\* ServeHTTP returned after a handler that wrote: its one line is there.
C5_Witness ==
  \E r \in ReqIds :
    /\ pc[r] = "done"
    /\ rl[r].size > 0
    /\ Len(EntriesOf(sink, r)) = 1

(***************************************************************************)
(* C6.  With a statsd client, a completed request emits one increment      *)
(* "http.response", one gauge "http.size" with the recorded size and one   *)
(* timing "http.response", after its log line, each tagged with the final  *)
(* recorded status and the method, a zero-byte response included.          *)
(* Without a client nothing is emitted.                                    *)
(***************************************************************************)
C6_MetricsOncePerRequest ==
  /\ mw.stats = "nil" => metrics = <<>>
  /\ \A r \in ReqIds :
       LET ms == EntriesOf(metrics, r)
           tags == << "status:" \o Itoa(rl[r].status), "method:" \o req[r].Method >>
       IN /\ pc[r] # "done" => ms = <<>>
          /\ ms # <<>> => Len(EntriesOf(sink, r)) = 1
          /\ (pc[r] = "done" /\ mw.stats # "nil") =>
               /\ Len(ms) = 3
               /\ \E i \in 1..3 : ms[i].kind = "Incr" /\ ms[i].name = "http.response"
               /\ \E i \in 1..3 : ms[i].kind = "Gauge" /\ ms[i].name = "http.size"
                                  /\ ms[i].value = rl[r].size
               /\ \E i \in 1..3 : ms[i].kind = "Timing" /\ ms[i].name = "http.response"
               /\ \A i \in 1..3 : ms[i].tags = tags

\* A zero-byte 404 response, measured.
C6_Witness ==
  \E r \in ReqIds :
    /\ pc[r] = "done"
    /\ rl[r].size = 0 /\ rl[r].status = 404
    /\ Len(EntriesOf(metrics, r)) = 3

(***************************************************************************)
(* C7.  A failed write on the sink (or a failing statsd client) does not   *)
(* reach the caller and does not touch the response: ServeHTTP goes on     *)
(* and returns as after a successful write, the write is not repeated, the *)
(* underlying writer has received the handler's calls and nothing else,    *)
(* and the measurements are still emitted.                                 *)
(***************************************************************************)
C7_SinkFailureSwallowed ==
  \A r \in ReqIds :
    LET lines == EntriesOf(sink, r)
        ms == EntriesOf(metrics, r)
    IN /\ (lines # <<>> /\ ~lines[1].ok) =>
            /\ pc[r] \in {"stats", "done"}
            /\ Len(lines) = 1
            /\ rw[r].received = Forwarded(calls[r], rw[r].flusher)
            /\ (pc[r] = "done" /\ mw.stats # "nil") => Len(ms) = 3
       /\ (ms # <<>> /\ ~ms[1].ok) =>
            /\ pc[r] = "done"
            /\ Len(ms) = 3
            /\ rw[r].received = Forwarded(calls[r], rw[r].flusher)

\* ServeHTTP returned after a failed sink write and failing measurements.
C7_Witness ==
  \E r \in ReqIds :
    /\ pc[r] = "done"
    /\ Len(EntriesOf(sink, r)) = 1 /\ ~EntriesOf(sink, r)[1].ok
    /\ mw.stats = "down"
    /\ Len(EntriesOf(metrics, r)) = 3
    /\ rw[r].received # <<>>

(***************************************************************************)
(* C8.  Handler builds a middleware for each of the five format values and *)
(* panics for every other selector, the zero value of Type included; the   *)
(* panic comes before any request is served and no format is substituted.  *)
(***************************************************************************)
C8_UnknownTypePanics ==
  LET named == {CombineLoggerType, CommonLoggerType, DevLoggerType,
                ShortLoggerType, TinyLoggerType}
  IN /\ named = 1..5
     /\ mw.state = "ready" => mw.arg \in named /\ mw.logFn = mw.arg
     /\ mw.state = "panicked" => mw.arg \notin named /\ Served = {} /\ sink = <<>>
     /\ (mw.state # "none" /\ mw.arg \in named) => mw.state = "ready"
     /\ (mw.state # "none" /\ mw.arg \notin named) => mw.state = "panicked"
     /\ Served # {} => mw.state = "ready"

\* Handler called with the zero value of Type.
C8_Witness == mw.state = "panicked" /\ mw.arg = 0

(***************************************************************************)
(* C9.  With requests handled concurrently, each has its own Observer:     *)
(* its recorded status and size, its log line and its measurements come    *)
(* from the calls of its own inner handler alone; the middleware's         *)
(* configuration stays as built; and a request that has not returned can   *)
(* always take its next step, whatever the other requests are doing.       *)
(***************************************************************************)
C9_RequestsIndependent ==
  /\ mw = ConcHandler
  /\ \A r \in ReqIds :
       LET status == StatusFrom(0, calls[r])
           size == SumReturned(calls[r])
           lines == EntriesOf(sink, r)
           ms == EntriesOf(metrics, r)
       IN /\ pc[r] # "idle" =>
               rl[r] = [start |-> ConcArrival(r).start, status |-> status, size |-> size]
          /\ \A i \in 1..Len(lines) :
               lines[i].data =
                 Join(<< req[r].Method, req[r].RequestURI, Itoa(status), Itoa(size),
                         "-", "0.000 ms" >>, " ") \o "\n"
          /\ \A i \in 1..Len(ms) :
               /\ ms[i].tags = << "status:" \o Itoa(status), "method:" \o req[r].Method >>
               /\ ms[i].kind = "Gauge" => ms[i].value = size
          /\ pc[r] # "done" => ENABLED RequestStep(r)

\* Two overlapping requests with different outcomes: request 2 logged
\* first, request 1 was measured first.
C9_Witness ==
  /\ pc[1] = "done" /\ pc[2] = "done"
  /\ rl[1].status = 404 /\ rl[1].size = 0
  /\ rl[2].status = 200 /\ rl[2].size = 1
  /\ sink[1].req = 2 /\ metrics[1].req = 1

(***************************************************************************)
(* C10.  Every line on the sink has the layout of the format the           *)
(* middleware was built with, the fields joined by single spaces:          *)
(* Combined, Common, Dev, Short and Tiny as listed; username is "-"        *)
(* without a non-empty user-info, and remoteIP is "" for a remote address  *)
(* that does not split into host and port.                                 *)
(***************************************************************************)
C10_LineLayout ==
  \A k \in 1..Len(sink) :
    LET r == sink[k].req
        rq == req[r]
        ip == CASE rq.RemoteAddr = <<"127.0.0.1", ":", "5000">> -> "127.0.0.1"
                [] rq.RemoteAddr = <<"[", ":", ":", "1", "]", ":", "80">> -> "::1"
                [] rq.RemoteAddr = <<"localhost">> -> ""
                [] rq.RemoteAddr = <<>> -> ""
        user == IF rq.User.present /\ rq.User.name # "" THEN rq.User.name ELSE "-"
        date == "[" \o FormatStart(rl[r].start) \o "]"
        status == Itoa(rl[r].status)
        size == Itoa(rl[r].size)
        sp == " "
        q == "\""
        common == ip \o sp \o "-" \o sp \o user \o sp \o date \o sp
                  \o q \o rq.Method \o sp \o rq.RequestURI \o sp \o rq.Proto \o q
                  \o sp \o status \o sp \o size
    IN \E e \in ElapsedTimes :
         LET ms == parseResponseTime(e)
         IN sink[k].data =
              CASE mw.arg = CombineLoggerType ->
                     common \o sp \o q \o rq.Referer \o q \o sp \o q \o rq.UserAgent \o q \o "\n"
                [] mw.arg = CommonLoggerType -> common \o "\n"
                [] mw.arg = DevLoggerType ->
                     rq.Method \o sp \o rq.RequestURI \o sp \o status \o sp \o ms
                     \o sp \o "-" \o sp \o size \o "\n"
                [] mw.arg = ShortLoggerType ->
                     ip \o sp \o user \o sp \o rq.Method \o sp \o rq.RequestURI \o sp
                     \o rq.Proto \o sp \o status \o sp \o size \o sp \o "-" \o sp \o ms \o "\n"
                [] mw.arg = TinyLoggerType ->
                     rq.Method \o sp \o rq.RequestURI \o sp \o status \o sp \o size
                     \o sp \o "-" \o sp \o ms \o "\n"

\* The short line of a request whose remote address has no port and whose
\* URL has no user.
C10_Witness ==
  \E k \in 1..Len(sink) :
    /\ mw.arg = ShortLoggerType
    /\ sink[k].data = " - GET /h HTTP/1.1 200 2 - 0.001 ms\n"

====
